---- MODULE Spec2Model ----
(***************************************************************************)
(* Model of the medATM kiosk backend: the doctor routes (patient/start,    *)
(* diagnosis/approve), the ESP32 routes (data_upload, get_motor_command,   *)
(* command_executed), the rule-based classifier and the two Mongoose       *)
(* collections Patient and Diagnosis they work on.                         *)
(*                                                                         *)
(* Spec     : every request handler runs to completion (one action each).  *)
(* SpecConc : handlers interleave at their awaits, one store operation per *)
(*            step, as Node schedules them.                                *)
(*                                                                         *)
(* Documents are kept in creation order: the _id of a document is its      *)
(* index in the collection and sort({createdAt: -1}) picks the largest     *)
(* index.  Temperatures are in tenths of a degree (37.8 -> 378).           *)
(***************************************************************************)
EXTENDS Integers, Sequences, FiniteSets, Bags, TLC

VARIABLES
    patients,     \* the Patient collection
    diagnoses,    \* the Diagnosis collection
    procs,        \* handlers suspended at an await (SpecConc only)
    kiosk,        \* per kiosk: what the device last polled / acknowledged
    accepted      \* requests accepted so far (SpecConc only)

vars == <<patients, diagnoses, procs, kiosk, accepted>>

----------------------------------------------------------------------------
(* Bounds of the model *)

MaxPatients == 2      \* Patient documents created by patient/start
MaxReadings == 2      \* sensor readings stored over all Diagnosis documents
MaxInFlight == 2      \* handlers suspended at the same time (SpecConc)
MaxRequests == 4      \* requests that reach the store (SpecConc)

----------------------------------------------------------------------------
(* Inputs *)

Kiosks == {"K1", "K2"}
Doctors == {"D1", "D2"}
NoKiosk == ""                         \* kioskId absent from the request
KioskInputs == Kiosks \cup {NoKiosk}

NaN == -1                             \* a field that is not a number

\* Request bodies of data_upload: bpm, spo2, temperature (tenths of a degree).
Readings ==
    { [bpm |-> 100, spo2 |-> 92, temperature |-> 380],   \* fever, low SpO2, fast pulse
      [bpm |-> 60,  spo2 |-> 97, temperature |-> 200],   \* cold, normal SpO2, slow pulse
      [bpm |-> 80,  spo2 |-> 97, temperature |-> 200],   \* matches no rule
      [bpm |-> 0,   spo2 |-> 97, temperature |-> 370],   \* bpm zero
      [bpm |-> 60,  spo2 |-> 97, temperature |-> 0],     \* temperature zero
      [bpm |-> NaN, spo2 |-> 97, temperature |-> 200] }  \* bpm not a number

NoReading == [bpm |-> 0, spo2 |-> 0, temperature |-> 0]

\* status of the command_executed request; "" is an absent field.
ExecStatuses == {"motor_activated", ""}

\* approvedDisease of the approve request; "" is an absent field.
Labels == {"Disease A", "Disease B", "Undetermined", "declined", ""}

\* name/age/phoneNumber of patient/start: complete and valid, a required
\* field absent, or present but rejected by PatientSchema (phone number
\* not matching, negative age).
SubjectInfos == {"ok", "missing", "invalid"}

----------------------------------------------------------------------------
(* Schemas *)

DiseaseEnum == {"Disease A", "Disease B", "Undetermined", "N/A"}

StatusEnum == {"collecting_data", "prediction_made", "pending_approval",
               "approved", "declined", "medication_dispensed", "completed"}

\* The statuses the routes treat as "not yet completed".
OpenStatuses == {"collecting_data", "prediction_made", "pending_approval"}

NewPatient(d, k) == [doctorId |-> d, kioskId |-> k, isActive |-> TRUE]

NewDiagnosis(pid, d, k) ==
    [patientId |-> pid, doctorId |-> d, kioskId |-> k,
     sensorData |-> <<>>,
     predictedDisease |-> "N/A", approvedDisease |-> "N/A",
     status |-> "collecting_data",
     motorCommand |-> "none", commandExecuted |-> FALSE]

\* Mongoose validation of a Diagnosis document on save().
ValidDiagnosis(doc) ==
    /\ doc.predictedDisease \in DiseaseEnum
    /\ doc.approvedDisease \in DiseaseEnum
    /\ doc.status \in StatusEnum

----------------------------------------------------------------------------
(* Classifier *)

IsNaN(x) == x = NaN

predictDisease(data) ==
    LET bpm == data.bpm
        spo2 == data.spo2
        temperature == data.temperature
    IN  IF temperature >= 250 THEN "health is good"
        ELSE IF IsNaN(bpm) \/ IsNaN(spo2) \/ IsNaN(temperature)
                \/ bpm = 0 \/ spo2 = 0 \/ temperature = 0 THEN "Undetermined"
        ELSE IF temperature >= 378 /\ spo2 < 95 /\ bpm > 90 THEN "Disease A"
        ELSE IF temperature <= 360 /\ spo2 >= 96 /\ bpm < 70 THEN "Disease B"
        ELSE "Undetermined"

----------------------------------------------------------------------------
(* Store operations *)

Max(S) == CHOOSE x \in S : \A y \in S : y <= x

\* Patient.updateMany({kioskId, isActive: true}, {$set: {isActive: false}})
DeactivateKiosk(ps, k) ==
    [i \in DOMAIN ps |->
        IF ps[i].kioskId = k /\ ps[i].isActive
        THEN [ps[i] EXCEPT !.isActive = FALSE] ELSE ps[i]]

\* Mutant of CompleteOpen: only Diagnoses still collecting data are closed.
CompleteOpen_CollectingOnly(ds, k) ==
    [i \in DOMAIN ds |->
        IF ds[i].kioskId = k /\ ds[i].status = "collecting_data"
        THEN [ds[i] EXCEPT !.status = "completed"] ELSE ds[i]]

\* Diagnosis.updateMany({kioskId, status: {$in: open}}, {$set: {status: 'completed'}})
CompleteOpen(ds, k) ==
    [i \in DOMAIN ds |->
        IF ds[i].kioskId = k /\ ds[i].status \in OpenStatuses
        THEN [ds[i] EXCEPT !.status = "completed"] ELSE ds[i]]

\* Patient.updateOne({_id: pid}, {$set: {isActive: false}})
DeactivatePatient(ps, pid) ==
    IF pid \in DOMAIN ps THEN [ps EXCEPT ![pid].isActive = FALSE] ELSE ps

\* Mutant of ActivePatients: the isActive filter is dropped.
ActivePatients_AnyPatient(ps, k) ==
    {i \in DOMAIN ps : ps[i].kioskId = k}

\* Patient.findOne({kioskId, isActive: true}): the documents that match; the
\* query has no sort, so which one is returned is up to the store.
ActivePatients(ps, k) ==
    {i \in DOMAIN ps : ps[i].kioskId = k /\ ps[i].isActive}

\* Diagnosis.findOne({patientId, kioskId, status: {$in: open}}).sort({createdAt: -1});
\* 0 stands for null.
LatestOpen(ds, pid, k) ==
    LET m == {i \in DOMAIN ds : /\ ds[i].patientId = pid
                                /\ ds[i].kioskId = k
                                /\ ds[i].status \in OpenStatuses}
    IN  IF m = {} THEN 0 ELSE Max(m)

\* Mutant of PendingCommand: the oldest match instead of the latest.
PendingCommand_Oldest(ds, k) ==
    LET m == {i \in DOMAIN ds : /\ ds[i].kioskId = k
                                /\ ds[i].commandExecuted = FALSE
                                /\ ds[i].status = "approved"
                                /\ ds[i].motorCommand # "none"}
    IN  IF m = {} THEN 0 ELSE CHOOSE x \in m : \A y \in m : x <= y

\* Diagnosis.findOne({kioskId, commandExecuted: false, status: 'approved',
\*                    motorCommand: {$ne: 'none'}}).sort({createdAt: -1})
PendingCommand(ds, k) ==
    LET m == {i \in DOMAIN ds : /\ ds[i].kioskId = k
                                /\ ds[i].commandExecuted = FALSE
                                /\ ds[i].status = "approved"
                                /\ ds[i].motorCommand # "none"}
    IN  IF m = {} THEN 0 ELSE Max(m)

\* Diagnosis.findOne({_id, doctorId}); 0 stands for null.
FindOwned(ds, id, d) ==
    IF id \in DOMAIN ds /\ ds[id].doctorId = d THEN id ELSE 0

\* Mutant of SaveChanges: save() overwrites the stored document with the
\* handler's copy.
SaveChanges_WholeDocument(stored, loaded, doc) == doc

\* save() of a document loaded earlier: Mongoose sends the paths the handler
\* changed since the load ($set) and the array elements it pushed ($push),
\* and the store applies them to the document as it is now.
SaveChanges(stored, loaded, doc) ==
    [patientId |-> stored.patientId,
     doctorId |-> stored.doctorId,
     kioskId |-> stored.kioskId,
     sensorData |-> stored.sensorData \o
                    SubSeq(doc.sensorData, Len(loaded.sensorData) + 1, Len(doc.sensorData)),
     predictedDisease |-> IF doc.predictedDisease # loaded.predictedDisease
                          THEN doc.predictedDisease ELSE stored.predictedDisease,
     approvedDisease |-> IF doc.approvedDisease # loaded.approvedDisease
                         THEN doc.approvedDisease ELSE stored.approvedDisease,
     status |-> IF doc.status # loaded.status THEN doc.status ELSE stored.status,
     motorCommand |-> IF doc.motorCommand # loaded.motorCommand
                      THEN doc.motorCommand ELSE stored.motorCommand,
     commandExecuted |-> IF doc.commandExecuted # loaded.commandExecuted
                         THEN doc.commandExecuted ELSE stored.commandExecuted]

\* diagnosis.save(): id = 0 inserts the new document, otherwise the changes
\* are applied to the stored one.
SaveDiagnosis(ds, id, loaded, doc) ==
    IF id = 0 THEN Append(ds, doc)
    ELSE [ds EXCEPT ![id] = SaveChanges(ds[id], loaded, doc)]

----------------------------------------------------------------------------
(* What the handlers compute on the loaded document before save() *)

\* Mutant of IngestUpdate: the status advances one state per upload, so a
\* determined prediction leaves the document at prediction_made.
IngestUpdate_OneTransition(doc, r) ==
    LET prediction == predictDisease(r)
    IN  [doc EXCEPT !.sensorData = Append(@, r),
                    !.predictedDisease = prediction,
                    !.status = IF prediction = "Undetermined" THEN @
                               ELSE IF @ = "collecting_data" THEN "prediction_made"
                               ELSE IF @ = "prediction_made" THEN "pending_approval"
                               ELSE @]

\* Mutant of IngestUpdate: the status advances whatever the prediction is.
IngestUpdate_AnyPrediction(doc, r) ==
    [doc EXCEPT !.sensorData = Append(@, r),
                !.predictedDisease = predictDisease(r),
                !.status = IF @ \in {"collecting_data", "prediction_made"}
                           THEN "pending_approval" ELSE @]

\* data_upload: push the reading, store the prediction, advance the status.
IngestUpdate(doc, r) ==
    LET prediction == predictDisease(r)
        s1 == IF doc.status = "collecting_data" /\ prediction # "Undetermined"
              THEN "prediction_made" ELSE doc.status
        s2 == IF s1 = "prediction_made" /\ prediction # "Undetermined"
              THEN "pending_approval" ELSE s1
    IN  [doc EXCEPT !.sensorData = Append(@, r),
                    !.predictedDisease = prediction,
                    !.status = s2]

\* Mutant of MotorCommandOf: the two motors are exchanged.
MotorCommandOf_Swapped(approvedDisease) ==
    IF approvedDisease = "Disease A" THEN "activate_motor_2"
    ELSE IF approvedDisease = "Disease B" THEN "activate_motor_1"
    ELSE "none"

\* diagnosis/approve: the motor command of an approved disease.
MotorCommandOf(approvedDisease) ==
    IF approvedDisease = "Disease A" THEN "activate_motor_1"
    ELSE IF approvedDisease = "Disease B" THEN "activate_motor_2"
    ELSE "none"

ApproveUpdate(doc, approvedDisease) ==
    [doc EXCEPT !.approvedDisease = approvedDisease,
                !.status = "approved",
                !.motorCommand = MotorCommandOf(approvedDisease)]

\* Mutant of AlreadyDecided: a dispensed Diagnosis can be approved again.
AlreadyDecided_ApprovedOnly(doc) == doc.status = "approved"

\* diagnosis/approve: the statuses the handler refuses.
AlreadyDecided(doc) ==
    doc.status = "approved" \/ doc.status = "medication_dispensed"

\* Mutant of ExecutedUpdate: the acknowledgement is answered but nothing is
\* recorded on the document.
ExecutedUpdate_NotRecorded(doc) == doc

\* command_executed
ExecutedUpdate(doc) ==
    [doc EXCEPT !.commandExecuted = TRUE, !.status = "medication_dispensed"]

\* data_upload: the request is rejected before the store is touched.
BadUpload(k, r) ==
    k = NoKiosk \/ IsNaN(r.bpm) \/ IsNaN(r.spo2) \/ IsNaN(r.temperature)

----------------------------------------------------------------------------
(* Request handlers, one store operation per step *)

\* A request being handled: its inputs, the await it is suspended at (pc),
\* the handler's local variables and, once pc = "done", the response.
NoDoc == NewDiagnosis(0, "", NoKiosk)

Request(op, pc, k, d) ==
    [op |-> op, pc |-> pc, kiosk |-> k, doctor |-> d,
     info |-> "", reading |-> NoReading, label |-> "", st |-> "",
     id |-> 0,             \* diagnosisId of the request / _id of the document found
     pid |-> 0,            \* _id of the patient found or created
     loaded |-> NoDoc,     \* the Diagnosis document as it was loaded
     code |-> 0,           \* HTTP status of the response
     out |-> ""]           \* currentPrediction / motorCommand / command of the response

StartRequest(k, d, info) ==
    [Request("start", "deactivate", k, d) EXCEPT !.info = info]

IngestRequest(k, r) ==
    [Request("ingest", "findPatient", k, "") EXCEPT !.reading = r]

ReviewRequest(id, d, l) ==
    [Request("review", "findOne", NoKiosk, d) EXCEPT !.id = id, !.label = l]

FetchRequest(k) == Request("fetch", "findOne", k, "")

ConfirmRequest(k, st) ==
    [Request("confirm", "findOne", k, "") EXCEPT !.st = st]

Done(pr, code) == [pr EXCEPT !.pc = "done", !.code = code]

Store(ps, ds) == [patients |-> ps, diagnoses |-> ds]

Result(db, pr) == [db |-> db, proc |-> pr]

\* POST /api/doctor/patient/start
StartStep(db, pr) ==
    CASE pr.pc = "deactivate" ->
            IF pr.info = "missing" \/ pr.kiosk = NoKiosk
            THEN Result(db, Done(pr, 400))
            ELSE Result(Store(DeactivateKiosk(db.patients, pr.kiosk), db.diagnoses),
                        [pr EXCEPT !.pc = "completeOpen"])
      [] pr.pc = "completeOpen" ->
            Result(Store(db.patients, CompleteOpen(db.diagnoses, pr.kiosk)),
                   [pr EXCEPT !.pc = "savePatient"])
      [] pr.pc = "savePatient" ->
            IF pr.info = "invalid"
            THEN Result(db, Done(pr, 500))
            ELSE Result(Store(Append(db.patients, NewPatient(pr.doctor, pr.kiosk)),
                              db.diagnoses),
                        [pr EXCEPT !.pc = "saveDiagnosis",
                                   !.pid = Len(db.patients) + 1])
      [] pr.pc = "saveDiagnosis" ->
            Result(Store(db.patients,
                         Append(db.diagnoses, NewDiagnosis(pr.pid, pr.doctor, pr.kiosk))),
                   [Done(pr, 201) EXCEPT !.id = Len(db.diagnoses) + 1])

\* POST /api/esp32/data_upload; choice is the active patient the store
\* returns when several match.
IngestStep(db, pr, choice) ==
    CASE pr.pc = "findPatient" ->
            IF BadUpload(pr.kiosk, pr.reading)
            THEN Result(db, Done(pr, 400))
            ELSE IF ActivePatients(db.patients, pr.kiosk) = {}
            THEN Result(db, Done(pr, 404))
            ELSE Result(db, [pr EXCEPT !.pc = "findDiagnosis", !.pid = choice])
      [] pr.pc = "findDiagnosis" ->
            LET id == LatestOpen(db.diagnoses, pr.pid, pr.kiosk)
            IN  Result(db, [pr EXCEPT
                    !.pc = "save",
                    !.id = id,
                    !.loaded = IF id = 0
                               THEN NewDiagnosis(pr.pid, db.patients[pr.pid].doctorId,
                                                 pr.kiosk)
                               ELSE db.diagnoses[id]])
      [] pr.pc = "save" ->
            LET doc == IngestUpdate(pr.loaded, pr.reading)
            IN  IF ValidDiagnosis(doc)
                THEN Result(Store(db.patients,
                                  SaveDiagnosis(db.diagnoses, pr.id, pr.loaded, doc)),
                            [Done(pr, 200) EXCEPT
                                !.out = doc.predictedDisease,
                                !.id = IF pr.id = 0 THEN Len(db.diagnoses) + 1 ELSE pr.id])
                ELSE Result(db, Done(pr, 500))

\* POST /api/doctor/diagnosis/approve
ReviewStep(db, pr) ==
    CASE pr.pc = "findOne" ->
            IF pr.id = 0 \/ pr.label = ""
            THEN Result(db, Done(pr, 400))
            ELSE IF FindOwned(db.diagnoses, pr.id, pr.doctor) = 0
            THEN Result(db, Done(pr, 404))
            ELSE IF AlreadyDecided(db.diagnoses[pr.id])
            THEN Result(db, Done(pr, 400))
            ELSE Result(db, [pr EXCEPT !.pc = "save", !.loaded = db.diagnoses[pr.id]])
      [] pr.pc = "save" ->
            LET doc == ApproveUpdate(pr.loaded, pr.label)
            IN  IF ValidDiagnosis(doc)
                THEN Result(Store(db.patients,
                                  SaveDiagnosis(db.diagnoses, pr.id, pr.loaded, doc)),
                            [pr EXCEPT !.pc = "deactivate", !.out = doc.motorCommand])
                ELSE Result(db, Done(pr, 500))
      [] pr.pc = "deactivate" ->
            Result(Store(DeactivatePatient(db.patients, pr.loaded.patientId),
                         db.diagnoses),
                   Done(pr, 200))

\* GET /api/esp32/get_motor_command
FetchStep(db, pr) ==
    IF pr.kiosk = NoKiosk
    THEN Result(db, Done(pr, 400))
    ELSE LET id == PendingCommand(db.diagnoses, pr.kiosk)
         IN  Result(db, [Done(pr, 200) EXCEPT
                 !.id = id,
                 !.out = IF id = 0 THEN "none" ELSE db.diagnoses[id].motorCommand])

\* POST /api/esp32/command_executed
ConfirmStep(db, pr) ==
    CASE pr.pc = "findOne" ->
            IF pr.kiosk = NoKiosk \/ pr.st = ""
            THEN Result(db, Done(pr, 400))
            ELSE LET id == PendingCommand(db.diagnoses, pr.kiosk)
                 IN  IF id = 0
                     THEN Result(db, Done(pr, 404))
                     ELSE Result(db, [pr EXCEPT !.pc = "save", !.id = id,
                                                !.loaded = db.diagnoses[id]])
      [] pr.pc = "save" ->
            Result(Store(db.patients,
                         SaveDiagnosis(db.diagnoses, pr.id, pr.loaded,
                                       ExecutedUpdate(pr.loaded))),
                   Done(pr, 200))

\* One step of a request: up to and including its next store operation.
Step(db, pr, choice) ==
    CASE pr.op = "start" -> StartStep(db, pr)
      [] pr.op = "ingest" -> IngestStep(db, pr, choice)
      [] pr.op = "review" -> ReviewStep(db, pr)
      [] pr.op = "fetch" -> FetchStep(db, pr)
      [] pr.op = "confirm" -> ConfirmStep(db, pr)

\* A request handled with no other request in between.
RECURSIVE Run(_, _, _)
Run(db, pr, choice) ==
    IF pr.pc = "done" THEN Result(db, pr)
    ELSE LET r == Step(db, pr, choice) IN Run(r.db, r.proc, choice)

\* What the store may return for Patient.findOne of a data_upload; 0 when
\* nothing matches.
PatientChoices(ps, k) ==
    IF ActivePatients(ps, k) = {} THEN {0} ELSE ActivePatients(ps, k)

\* The device remembers the Diagnosis whose command its last poll returned
\* and the one its last acknowledgement confirmed.
KioskIdle == [polled |-> 0, acked |-> 0]

KioskAfter(kv, pr) ==
    IF pr.pc = "done" /\ pr.code = 200 /\ pr.op = "fetch"
    THEN [kv EXCEPT ![pr.kiosk] = [polled |-> pr.id, acked |-> 0]]
    ELSE IF pr.pc = "done" /\ pr.code = 200 /\ pr.op = "confirm"
    THEN [kv EXCEPT ![pr.kiosk] = [polled |-> 0, acked |-> pr.id]]
    ELSE kv

StoredReadings(ds) ==
    LET RECURSIVE Sum(_)
        Sum(i) == IF i = 0 THEN 0 ELSE Len(ds[i].sensorData) + Sum(i - 1)
    IN  Sum(Len(ds))

DB == Store(patients, diagnoses)

Init ==
    /\ patients = <<>>
    /\ diagnoses = <<>>
    /\ procs = EmptyBag
    /\ kiosk = [k \in Kiosks |-> KioskIdle]
    /\ accepted = 0

----------------------------------------------------------------------------
(* Spec: every request runs to completion *)

Handle(pr, choice) ==
    LET r == Run(DB, pr, choice)
    IN  /\ patients' = r.db.patients
        /\ diagnoses' = r.db.diagnoses
        /\ kiosk' = KioskAfter(kiosk, r.proc)
        /\ UNCHANGED <<procs, accepted>>

StartSession(k, d, info) ==
    /\ Len(patients) < MaxPatients
    /\ Handle(StartRequest(k, d, info), 0)

IngestReading(k, r) ==
    /\ StoredReadings(diagnoses) < MaxReadings
    /\ \E p \in PatientChoices(patients, k) : Handle(IngestRequest(k, r), p)

ReviewSession(id, d, l) == Handle(ReviewRequest(id, d, l), 0)

FetchCommand(k) == Handle(FetchRequest(k), 0)

ConfirmExecution(k, st) == Handle(ConfirmRequest(k, st), 0)

Next ==
    \/ \E k \in Kiosks, d \in Doctors, info \in SubjectInfos : StartSession(k, d, info)
    \/ \E k \in KioskInputs, r \in Readings : IngestReading(k, r)
    \/ \E id \in 0..(Len(diagnoses) + 1), d \in Doctors, l \in Labels : ReviewSession(id, d, l)
    \/ \E k \in KioskInputs : FetchCommand(k)
    \/ \E k \in KioskInputs, st \in ExecStatuses : ConfirmExecution(k, st)

Spec == Init /\ [][Next]_vars

\* Spec with a device that keeps working.  Poll(k) and Acknowledge(k) are
\* the steps of FetchCommand(k) and ConfirmExecution(k, "motor_activated")
\* that the device sees succeed, written out so that their enabling
\* condition is explicit: a poll always answers, an acknowledgement finds a
\* Diagnosis whenever one is approved, unexecuted and has a command.
Poll(k) ==
    /\ kiosk' = [kiosk EXCEPT ![k] = [polled |-> PendingCommand(diagnoses, k),
                                      acked |-> 0]]
    /\ UNCHANGED <<patients, diagnoses, procs, accepted>>

Acknowledge(k) ==
    LET id == PendingCommand(diagnoses, k)
    IN  /\ id # 0
        /\ diagnoses' = SaveDiagnosis(diagnoses, id, diagnoses[id],
                                      ExecutedUpdate(diagnoses[id]))
        /\ kiosk' = [kiosk EXCEPT ![k] = [polled |-> 0, acked |-> id]]
        /\ UNCHANGED <<patients, procs, accepted>>

KioskFairness ==
    \A k \in Kiosks : WF_vars(Poll(k)) /\ WF_vars(Acknowledge(k))

SpecLive == Spec /\ KioskFairness

----------------------------------------------------------------------------
(* SpecConc: requests interleave at their awaits *)

InFlight(op, pcs) ==
    LET RECURSIVE Count(_)
        Count(S) == IF S = {} THEN 0
                    ELSE LET pr == CHOOSE x \in S : TRUE
                         IN  CopiesIn(pr, procs) + Count(S \ {pr})
    IN  Count({pr \in BagToSet(procs) : pr.op = op /\ pr.pc \in pcs})

\* A request arrives: the handler runs up to its first store operation.
Launch(pr, choice) ==
    /\ BagCardinality(procs) < MaxInFlight
    /\ accepted < MaxRequests
    /\ LET r == Step(DB, pr, choice)
       IN  /\ accepted' = IF r.proc.pc = "done" /\ r.db = DB
                              /\ KioskAfter(kiosk, r.proc) = kiosk
                          THEN accepted ELSE accepted + 1
           /\ patients' = r.db.patients
           /\ diagnoses' = r.db.diagnoses
           /\ kiosk' = KioskAfter(kiosk, r.proc)
           /\ procs' = IF r.proc.pc = "done" THEN procs
                       ELSE procs (+) SetToBag({r.proc})

BeginStartSession(k, d, info) ==
    /\ Len(patients) + InFlight("start", {"completeOpen", "savePatient"}) < MaxPatients
    /\ Launch(StartRequest(k, d, info), 0)

BeginIngestReading(k, r) ==
    /\ StoredReadings(diagnoses) + InFlight("ingest", {"findDiagnosis", "save"}) < MaxReadings
    /\ \E p \in PatientChoices(patients, k) : Launch(IngestRequest(k, r), p)

BeginReviewSession(id, d, l) == Launch(ReviewRequest(id, d, l), 0)

PollCommand(k) == Launch(FetchRequest(k), 0)

BeginConfirmExecution(k, st) == Launch(ConfirmRequest(k, st), 0)

\* A suspended request resumes: the store operation it awaited completes and
\* the handler runs up to its next one.
Resume(pr) ==
    /\ pr \in BagToSet(procs)
    /\ UNCHANGED accepted
    /\ LET r == Step(DB, pr, pr.pid)
       IN  /\ patients' = r.db.patients
           /\ diagnoses' = r.db.diagnoses
           /\ kiosk' = KioskAfter(kiosk, r.proc)
           /\ procs' = IF r.proc.pc = "done" THEN procs (-) SetToBag({pr})
                       ELSE (procs (-) SetToBag({pr})) (+) SetToBag({r.proc})

NextConc ==
    \/ \E k \in Kiosks, d \in Doctors, info \in SubjectInfos : BeginStartSession(k, d, info)
    \/ \E k \in KioskInputs, r \in Readings : BeginIngestReading(k, r)
    \/ \E id \in 0..(Len(diagnoses) + 1), d \in Doctors, l \in Labels :
          BeginReviewSession(id, d, l)
    \/ \E k \in KioskInputs : PollCommand(k)
    \/ \E k \in KioskInputs, st \in ExecStatuses : BeginConfirmExecution(k, st)
    \/ \E pr \in BagToSet(procs) : Resume(pr)

SpecConc == Init /\ [][NextConc]_vars

----------------------------------------------------------------------------
(* Properties *)

\* The statuses after which a Diagnosis is meant to be inert.
TerminalStatuses == {"completed", "medication_dispensed"}

OfKiosk(ds, k) == {i \in DOMAIN ds : ds[i].kioskId = k}

HasZero(r) == r.bpm = 0 \/ r.spo2 = 0 \/ r.temperature = 0

\* Every request a client can send in the current state, with the choice
\* the store may make for it.
Requests ==
    {<<StartRequest(k, d, info), 0>> : k \in Kiosks, d \in Doctors, info \in SubjectInfos}
    \cup UNION {{<<IngestRequest(k, r), p>> : p \in PatientChoices(patients, k)} :
                   k \in KioskInputs, r \in Readings}
    \cup {<<ReviewRequest(id, d, l), 0>> :
             id \in 0..(Len(diagnoses) + 1), d \in Doctors, l \in Labels}
    \cup {<<FetchRequest(k), 0>> : k \in KioskInputs}
    \cup {<<ConfirmRequest(k, st), 0>> : k \in KioskInputs, st \in ExecStatuses}

\* C1: in every reachable state every kiosk has at most one Patient with
\* isActive = true, also while requests for the kiosk interleave at their
\* store operations.
C1_OneActivePerKiosk ==
    \A k \in Kiosks : Cardinality(ActivePatients(patients, k)) <= 1

\* C2: from every reachable state, a patient/start that succeeds leaves its
\* kiosk with exactly one active Patient and exactly one Diagnosis whose
\* status is neither completed nor medication_dispensed.
C2_StartLeavesOneOpen ==
    \A k \in Kiosks, d \in Doctors :
        LET r == Run(DB, StartRequest(k, d, "ok"), 0)
        IN  r.proc.code = 201 =>
              /\ Cardinality(ActivePatients(r.db.patients, k)) = 1
              /\ Cardinality({i \in OfKiosk(r.db.diagnoses, k) :
                     r.db.diagnoses[i].status \notin TerminalStatuses}) = 1

\* C3: in every reachable state, also while requests interleave, a Diagnosis
\* has commandExecuted = true exactly when its status is medication_dispensed.
C3_ExecutedIffDispensed ==
    \A i \in DOMAIN diagnoses :
        diagnoses[i].commandExecuted <=> diagnoses[i].status = "medication_dispensed"

\* C4: when a kiosk acknowledges the command its last poll returned, the
\* acknowledgement marks the Diagnosis that poll selected as dispensed and
\* changes no other Diagnosis.
C4_AckMarksPolled ==
    \A k \in Kiosks :
        kiosk[k].polled # 0 =>
            LET s == kiosk[k].polled
                r == Run(DB, ConfirmRequest(k, "motor_activated"), 0)
            IN  /\ r.proc.code = 200
                /\ r.proc.id = s
                /\ r.db.diagnoses[s].commandExecuted
                /\ r.db.diagnoses[s].status = "medication_dispensed"
                /\ \A i \in DOMAIN diagnoses :
                       i # s => r.db.diagnoses[i] = diagnoses[i]

\* C5: when a kiosk repeats the acknowledgement of a Diagnosis that is
\* already medication_dispensed, the request succeeds with the same
\* diagnosis id and changes nothing.
C5_AckIdempotent ==
    \A k \in Kiosks :
        (kiosk[k].acked # 0 /\ diagnoses[kiosk[k].acked].status = "medication_dispensed") =>
            LET r == Run(DB, ConfirmRequest(k, "motor_activated"), 0)
            IN  /\ r.proc.code = 200
                /\ r.proc.id = kiosk[k].acked
                /\ r.db = DB

\* C6: diagnosis/approve succeeds only for an existing Diagnosis of the
\* calling doctor in pending_approval; in every other case it fails and
\* changes neither the Diagnosis nor its Patient.
C6_ReviewOnlyPending ==
    \A id \in 0..(Len(diagnoses) + 1), d \in Doctors, l \in Labels :
        LET r == Run(DB, ReviewRequest(id, d, l), 0)
            reviewable == /\ id \in DOMAIN diagnoses
                          /\ diagnoses[id].doctorId = d
                          /\ diagnoses[id].status = "pending_approval"
        IN  /\ r.proc.code = 200 => reviewable
            /\ ~reviewable => (r.proc.code # 200 /\ r.db = DB)

\* C7: once a Diagnosis is completed or medication_dispensed, no request
\* changes any of its fields.
C7_TerminalInert ==
    \A q \in Requests :
        LET r == Run(DB, q[1], q[2])
        IN  \A i \in DOMAIN diagnoses :
                diagnoses[i].status \in TerminalStatuses =>
                    r.db.diagnoses[i] = diagnoses[i]

\* C8: a data_upload that succeeds on a Diagnosis in collecting_data with a
\* prediction other than Undetermined leaves it in pending_approval, and no
\* stored Diagnosis ever has status prediction_made.
C8_DirectToPending ==
    /\ \A i \in DOMAIN diagnoses : diagnoses[i].status # "prediction_made"
    /\ \A k \in Kiosks, rd \in Readings :
         \A p \in PatientChoices(patients, k) :
            LET r == Run(DB, IngestRequest(k, rd), p)
            IN  (/\ r.proc.code = 200
                 /\ r.proc.loaded.status = "collecting_data"
                 /\ r.proc.out # "Undetermined")
                => r.db.diagnoses[r.proc.id].status = "pending_approval"

\* C8 witness: a Diagnosis that one upload with a determined prediction
\* moved from collecting_data to pending_approval.
C8_Witness ==
    \E i \in DOMAIN diagnoses :
        /\ diagnoses[i].status = "pending_approval"
        /\ Len(diagnoses[i].sensorData) = 1
        /\ diagnoses[i].predictedDisease = "Disease B"
        /\ predictDisease(diagnoses[i].sensorData[1]) = "Disease B"

\* C9: for a kiosk whose active Diagnosis is in collecting_data, a reading
\* with bpm, spo2 or temperature zero is answered with Undetermined and
\* leaves the status at collecting_data.
C9_ZeroIsUndetermined ==
    \A k \in Kiosks, rd \in {x \in Readings : HasZero(x)} :
        \A p \in ActivePatients(patients, k) :
            LET id == LatestOpen(diagnoses, p, k)
                r == Run(DB, IngestRequest(k, rd), p)
            IN  (id # 0 /\ diagnoses[id].status = "collecting_data") =>
                    /\ r.proc.out = "Undetermined"
                    /\ r.db.diagnoses[id].status = "collecting_data"

\* C10: on a freshly started Diagnosis, a reading with temperature >= 37.8,
\* spo2 < 95 and bpm > 90 is answered with Disease A, which is stored, and
\* leaves the Diagnosis in pending_approval with the reading appended.
C10_FeverIsDiseaseA ==
    \A k \in Kiosks,
       rd \in {x \in Readings : x.temperature >= 378 /\ x.spo2 < 95 /\ x.bpm > 90} :
        \A p \in ActivePatients(patients, k) :
            LET id == LatestOpen(diagnoses, p, k)
                r == Run(DB, IngestRequest(k, rd), p)
            IN  (id # 0 /\ diagnoses[id] = NewDiagnosis(p, patients[p].doctorId, k)) =>
                    /\ r.proc.code = 200
                    /\ r.proc.out = "Disease A"
                    /\ r.db.diagnoses[id].predictedDisease = "Disease A"
                    /\ r.db.diagnoses[id].status = "pending_approval"
                    /\ r.db.diagnoses[id].sensorData = <<rd>>

\* The Diagnoses of a kiosk whose command is waiting for the device:
\* approved, not executed, command other than none.
Outstanding(ds, k) ==
    {i \in OfKiosk(ds, k) : /\ ds[i].status = "approved"
                            /\ ~ds[i].commandExecuted
                            /\ ds[i].motorCommand # "none"}

\* C11: a diagnosis/approve that succeeds with approvedDisease L stores
\* approvedDisease = L, status approved and the motor command of L
\* (activate_motor_1 for Disease A, activate_motor_2 for Disease B, none
\* otherwise), deactivates the Diagnosis' Patient, and returns the stored
\* motor command.
C11_ReviewEffect ==
    \A id \in DOMAIN diagnoses, d \in Doctors, l \in Labels :
        LET r == Run(DB, ReviewRequest(id, d, l), 0)
        IN  r.proc.code = 200 =>
              /\ r.db.diagnoses[id].approvedDisease = l
              /\ r.db.diagnoses[id].status = "approved"
              /\ r.db.diagnoses[id].motorCommand =
                    (CASE l = "Disease A" -> "activate_motor_1"
                       [] l = "Disease B" -> "activate_motor_2"
                       [] OTHER -> "none")
              /\ ~r.db.patients[diagnoses[id].patientId].isActive
              /\ r.proc.out = r.db.diagnoses[id].motorCommand

\* C11 witness: approvals of Disease A and of Undetermined have been stored,
\* each with its motor command and an inactive Patient.
C11_Witness ==
    \E i, j \in DOMAIN diagnoses :
        /\ diagnoses[i].status = "approved"
        /\ diagnoses[i].approvedDisease = "Disease A"
        /\ diagnoses[i].motorCommand = "activate_motor_1"
        /\ ~patients[diagnoses[i].patientId].isActive
        /\ diagnoses[j].status = "approved"
        /\ diagnoses[j].approvedDisease = "Undetermined"
        /\ diagnoses[j].motorCommand = "none"
        /\ ~patients[diagnoses[j].patientId].isActive

\* C12: for every Diagnosis in pending_approval its doctor has a decision
\* that diagnosis/approve answers with success and that leaves the
\* Diagnosis declined, with motor command none and commandExecuted false.
C12_CanDecline ==
    \A id \in DOMAIN diagnoses :
        diagnoses[id].status = "pending_approval" =>
            \E l \in Labels :
                LET r == Run(DB, ReviewRequest(id, diagnoses[id].doctorId, l), 0)
                IN  /\ r.proc.code = 200
                    /\ r.db.diagnoses[id].status = "declined"
                    /\ r.db.diagnoses[id].motorCommand = "none"
                    /\ ~r.db.diagnoses[id].commandExecuted

\* C13: get_motor_command for any kiosk, idle or unknown included, changes
\* neither collection, answers 200, and returns the motor command of the
\* latest Diagnosis of the kiosk that is approved, not executed and has a
\* command, or none when there is no such Diagnosis; a second poll right
\* after it returns the same command.
C13_FetchReadOnly ==
    \A k \in Kiosks :
        LET r == Run(DB, FetchRequest(k), 0)
            again == Run(r.db, FetchRequest(k), 0)
            m == Outstanding(diagnoses, k)
        IN  /\ r.db = DB
            /\ r.proc.code = 200
            /\ IF m = {} THEN r.proc.out = "none"
               ELSE \E i \in m : /\ \A j \in m : j <= i
                                 /\ r.proc.out = diagnoses[i].motorCommand
            /\ again.proc.out = r.proc.out
            /\ again.db = DB

\* C13 witness: a kiosk with two outstanding commands of different motors
\* has polled and was given the later one.
C13_Witness ==
    \E k \in Kiosks :
        \E i, j \in Outstanding(diagnoses, k) :
            /\ i < j
            /\ diagnoses[i].motorCommand # diagnoses[j].motorCommand
            /\ kiosk[k].polled = j

\* C14: after a command_executed that succeeds, get_motor_command of the
\* kiosk does not select the Diagnosis it marked, and returns none when that
\* was the kiosk's only outstanding Diagnosis; a Diagnosis with
\* commandExecuted = true is never selected by a poll and no request resets
\* the flag.
C14_NoCommandAfterAck ==
    /\ \A k \in Kiosks :
          LET c == Run(DB, ConfirmRequest(k, "motor_activated"), 0)
              f == Run(c.db, FetchRequest(k), 0)
          IN  c.proc.code = 200 =>
                /\ c.db.diagnoses[c.proc.id].commandExecuted
                /\ f.proc.id # c.proc.id
                /\ Cardinality(Outstanding(diagnoses, k)) = 1 => f.proc.out = "none"
    /\ \A i \in DOMAIN diagnoses :
          diagnoses[i].commandExecuted =>
             /\ Run(DB, FetchRequest(diagnoses[i].kioskId), 0).proc.id # i
             /\ \A q \in Requests :
                   Run(DB, q[1], q[2]).db.diagnoses[i].commandExecuted

\* C14 witness: a kiosk has acknowledged its only outstanding command.
C14_Witness ==
    \E k \in Kiosks :
        /\ kiosk[k].acked # 0
        /\ diagnoses[kiosk[k].acked].commandExecuted
        /\ diagnoses[kiosk[k].acked].status = "medication_dispensed"
        /\ Outstanding(diagnoses, k) = {}
        /\ Run(DB, FetchRequest(k), 0).proc.out = "none"

\* The fair steps of the device are the handlers: Poll(k) leads to the state
\* get_motor_command leads to, Acknowledge(k) to the state command_executed
\* leads to when it finds a Diagnosis, and command_executed changes nothing
\* when it finds none.
DeviceStepsAreHandlers ==
    \A k \in Kiosks :
        LET f == FetchStep(DB, FetchRequest(k))
            c1 == ConfirmStep(DB, ConfirmRequest(k, "motor_activated"))
            c == IF c1.proc.pc = "done" THEN c1 ELSE ConfirmStep(c1.db, c1.proc)
            id == PendingCommand(diagnoses, k)
        IN  /\ f.db = DB
            /\ KioskAfter(kiosk, f.proc) =
                  [kiosk EXCEPT ![k] = [polled |-> id, acked |-> 0]]
            /\ id = 0 => (c.db = DB /\ KioskAfter(kiosk, c.proc) = kiosk)
            /\ c.proc.pc = "done"
            /\ id # 0 =>
                  /\ c.db = Store(patients,
                                  SaveDiagnosis(diagnoses, id, diagnoses[id],
                                                ExecutedUpdate(diagnoses[id])))
                  /\ KioskAfter(kiosk, c.proc) =
                        [kiosk EXCEPT ![k] = [polled |-> 0, acked |-> id]]

IsPrefix(a, b) == Len(a) <= Len(b) /\ SubSeq(b, 1, Len(a)) = a

C17_ReadingsInOrder ==
    /\ \A k \in Kiosks :
         \A r1, r2 \in {x \in Readings : ~BadUpload(k, x)} :
            \A p \in ActivePatients(patients, k) :
               LET id == LatestOpen(diagnoses, p, k)
                   a == Run(DB, IngestRequest(k, r1), p)
                   b == Run(a.db, IngestRequest(k, r2), p)
               IN  id # 0 =>
                     /\ a.proc.code = 200
                     /\ b.proc.code = 200
                     /\ b.db.diagnoses[id].sensorData =
                           diagnoses[id].sensorData \o <<r1, r2>>
    /\ \A q \in Requests :
          LET r == Run(DB, q[1], q[2])
          IN  \A i \in DOMAIN diagnoses :
                 IsPrefix(diagnoses[i].sensorData, r.db.diagnoses[i].sensorData)

\* C18: data_upload of a well-formed reading for a kiosk none of whose
\* Patients is active is answered 404 and changes neither collection.
C18_NoActiveSubject ==
    \A k \in Kiosks : \A rd \in {x \in Readings : ~BadUpload(k, x)} :
        (\A i \in DOMAIN patients : patients[i].kioskId = k => ~patients[i].isActive) =>
            \A p \in PatientChoices(patients, k) :
                LET r == Run(DB, IngestRequest(k, rd), p)
                IN  r.proc.code = 404 /\ r.db = DB

\* C18 witness: a kiosk whose Diagnosis has been reviewed has no active
\* Patient left, and an upload for it is answered 404.
C18_Witness ==
    \E k \in Kiosks :
        /\ \E i \in OfKiosk(diagnoses, k) :
              /\ diagnoses[i].status = "approved"
              /\ Len(diagnoses[i].sensorData) > 0
        /\ \E i \in DOMAIN patients : patients[i].kioskId = k
        /\ \A i \in DOMAIN patients : patients[i].kioskId = k => ~patients[i].isActive
        /\ \A rd \in {x \in Readings : ~BadUpload(k, x)} :
              Run(DB, IngestRequest(k, rd), 0).proc.code = 404

\* C19: a patient/start that does not answer 201 leaves both collections as
\* they were: no Patient deactivated, no Diagnosis completed.
C19_StartAllOrNothing ==
    \A k \in KioskInputs, d \in Doctors, info \in SubjectInfos :
        LET r == Run(DB, StartRequest(k, d, info), 0)
        IN  r.proc.code # 201 => r.db = DB

\* C20: when two data_upload handlers of the same kiosk and Patient have both
\* read and are both about to write successfully, their writes go to one and
\* the same Diagnosis, which then holds both readings.
C20_ConcurrentIngestOneSession ==
    \A a, b \in BagToSet(procs) :
        (/\ a.op = "ingest" /\ b.op = "ingest"
         /\ a.pc = "save" /\ b.pc = "save"
         /\ a.kiosk = b.kiosk /\ a.pid = b.pid
         /\ (a # b \/ CopiesIn(a, procs) >= 2)
         /\ Step(DB, a, a.pid).proc.code = 200
         /\ Step(DB, b, b.pid).proc.code = 200)
        => LET ra == Step(DB, a, a.pid)
               rb == Step(ra.db, b, b.pid)
               id == ra.proc.id
           IN  /\ rb.proc.id = id
               /\ \E n \in 1..Len(rb.db.diagnoses[id].sensorData) :
                     /\ n + 1 <= Len(rb.db.diagnoses[id].sensorData)
                     /\ rb.db.diagnoses[id].sensorData[n] = a.reading
                     /\ rb.db.diagnoses[id].sensorData[n + 1] = b.reading

\* C21: while the latest Diagnosis of a kiosk, the only one of its Patient,
\* is approved (after a determined prediction) and no patient/start for the
\* kiosk is under way, no
\* data_upload for the kiosk, newly arriving or already suspended at an
\* await, is answered 200 or changes either collection; this also between
\* the approve handler's diagnosis.save() and its Patient.updateOne().
C21_ReviewClosesKiosk ==
    \A k \in Kiosks :
        (/\ \E i \in OfKiosk(diagnoses, k) :
               /\ diagnoses[i].status = "approved"
               /\ diagnoses[i].predictedDisease = "Disease B"
               /\ \A j \in OfKiosk(diagnoses, k) : j <= i
               /\ \A j \in DOMAIN diagnoses :
                     diagnoses[j].patientId = diagnoses[i].patientId => j = i
               /\ \A p \in DOMAIN patients :
                     patients[p].kioskId = k => p <= diagnoses[i].patientId
         /\ \A pr \in BagToSet(procs) : ~(pr.op = "start" /\ pr.kiosk = k))
        => /\ \A rd \in Readings :
                \A p \in PatientChoices(patients, k) :
                   LET r == Run(DB, IngestRequest(k, rd), p)
                   IN  r.proc.code # 200 /\ r.db = DB
           /\ \A pr \in BagToSet(procs) :
                (pr.op = "ingest" /\ pr.kiosk = k) =>
                   LET r == Run(DB, pr, pr.pid)
                   IN  r.proc.code # 200 /\ r.db = DB

\* C22: also while requests interleave, no store operation of patient/start,
\* data_upload or get_motor_command changes the motorCommand or
\* commandExecuted of a Diagnosis; motorCommand is changed only by
\* diagnosis/approve, commandExecuted only by command_executed and only from
\* false to true; a Diagnosis is created with motorCommand none and
\* commandExecuted false.
C22_CommandFrame ==
    LET Frame(op, after) ==
            /\ \A i \in DOMAIN diagnoses :
                  /\ after[i].motorCommand # diagnoses[i].motorCommand => op = "review"
                  /\ after[i].commandExecuted # diagnoses[i].commandExecuted =>
                        /\ op = "confirm"
                        /\ ~diagnoses[i].commandExecuted
                        /\ after[i].commandExecuted
            /\ \A i \in DOMAIN after :
                  i \notin DOMAIN diagnoses =>
                     /\ op \in {"start", "ingest"}
                     /\ after[i].motorCommand = "none"
                     /\ ~after[i].commandExecuted
    IN  /\ \A q \in Requests : Frame(q[1].op, Step(DB, q[1], q[2]).db.diagnoses)
        /\ \A pr \in BagToSet(procs) : Frame(pr.op, Step(DB, pr, pr.pid).db.diagnoses)

\* C22 witness: after a Diagnosis was approved with a command, a patient/start
\* and a data_upload for the same kiosk have run, and the command is still
\* stored and unexecuted.
C22_Witness ==
    \E i, j \in DOMAIN diagnoses :
        /\ i < j
        /\ diagnoses[i].kioskId = diagnoses[j].kioskId
        /\ diagnoses[i].motorCommand = "activate_motor_2"
        /\ ~diagnoses[i].commandExecuted
        /\ Len(diagnoses[j].sensorData) > 0

\* C23 as stated: every Diagnosis in pending_approval has predictedDisease
\* Disease A or Disease B.
C23_PendingIsDetermined ==
    \A i \in DOMAIN diagnoses :
        diagnoses[i].status = "pending_approval" =>
            diagnoses[i].predictedDisease \in {"Disease A", "Disease B"}

\* C23 amended: a Diagnosis enters pending_approval only through a
\* data_upload whose prediction is Disease A or Disease B, which it stores;
\* afterwards the predictedDisease of a Diagnosis in pending_approval is the
\* prediction of its latest reading, which may be Undetermined but is never
\* N/A.
C23_PendingHasLatestPrediction ==
    /\ \A i \in DOMAIN diagnoses :
          diagnoses[i].status = "pending_approval" =>
             /\ Len(diagnoses[i].sensorData) > 0
             /\ diagnoses[i].predictedDisease =
                   predictDisease(diagnoses[i].sensorData[Len(diagnoses[i].sensorData)])
             /\ diagnoses[i].predictedDisease \in
                   {"Disease A", "Disease B", "Undetermined"}
    /\ \A q \in Requests :
          LET r == Run(DB, q[1], q[2])
          IN  \A i \in DOMAIN r.db.diagnoses :
                 (/\ r.db.diagnoses[i].status = "pending_approval"
                  /\ (i \in DOMAIN diagnoses => diagnoses[i].status # "pending_approval"))
                 => /\ q[1].op = "ingest"
                    /\ r.db.diagnoses[i].predictedDisease \in {"Disease A", "Disease B"}

\* C23 witness: a Diagnosis that entered pending_approval with Disease B has
\* taken a further reading and now stores Undetermined while still waiting
\* for review.
C23_Witness ==
    \E i \in DOMAIN diagnoses :
        /\ diagnoses[i].status = "pending_approval"
        /\ Len(diagnoses[i].sensorData) = 2
        /\ predictDisease(diagnoses[i].sensorData[1]) = "Disease B"
        /\ diagnoses[i].predictedDisease = "Undetermined"

\* C24: a poll of a kiosk never returns the command of a Diagnosis older than
\* the latest Diagnosis patient/start has opened on that kiosk.
C24_NoStaleCommand ==
    \A k \in Kiosks :
        LET f == Run(DB, FetchRequest(k), 0)
        IN  f.proc.out # "none" =>
               \A j \in OfKiosk(diagnoses, k) : j <= f.proc.id

====
